---- MODULE Spec2Model ----
(***************************************************************************)
(* A model of NEZHA-RED: the puzzle engine (src/src/puzzle/lights_out.py:  *)
(* the Lights Out solver over GF(2), move application, the solved test and *)
(* the seeded puzzle generator), the robot controller                      *)
(* (src/src/robot/controller.py), the puzzle window of the game            *)
(* (src/demos/__main__.py), the screensaver (src/demos/aods_manager.py)    *)
(* and the accounts (src/demos/user_manager.py).                           *)
(*                                                                         *)
(* Python lists and numpy arrays are 0-based: a grid is a function         *)
(* [0..n-1 -> [0..n-1 -> {0,1}]], a vector a function on 0..N-1.           *)
(***************************************************************************)
EXTENDS Integers, Sequences, FiniteSets, TLC

VARIABLES
    size,      \* LightsOutSolver.size of the solver under test
    grid,      \* the caller's grid object, as the caller can read it
    pc,        \* where the caller / the running call stands
    call,      \* the call in progress or last made, with its arguments
    ret,       \* what the last call returned (or raised)
    pressed,   \* how often each cell was pressed since the start of a press sequence
    M,         \* _solve_gf2: the augmented matrix
    prow,      \* _solve_gf2: the local `row` (pivot row counter)
    pcol,      \* _solve_gf2: the loop variable `col`
    cur,       \* the replay of a move list: the grid so far
    todo,      \* the replay of a move list: indices of moves not yet applied
    rng,       \* numpy's process-wide generator state
    oracle,    \* whether some set of presses drives the caller's grid to all-off
    grid_width,    \* RobotController.grid_width
    grid_height,   \* RobotController.grid_height
    checkpoints,   \* RobotController.checkpoints
    state,         \* RobotController.state: None or a RobotState
    pathpos,       \* the caller's loop over a path: how many directions were executed
    current_puzzle,       \* NezhaGameGUI.current_puzzle
    current_solution,     \* NezhaGameGUI.current_solution
    puzzle_solved_flag,   \* NezhaGameGUI.puzzle_solved_flag
    window,        \* the puzzle window: none, open or destroyed, and its cell buttons
    frames,        \* the event handlers in progress, innermost last
    timers,        \* pending window.after(500, complete_puzzle) callbacks
    completed,     \* current_puzzle at each invocation of complete_puzzle
    clicks,        \* user actions on the game: puzzles opened, clicks in the puzzle window
    settings_enabled,   \* AODSManager.settings.enabled
    idle_time_ms,       \* AODSManager.idle_time_ms, in units of check_interval_ms
    is_active,          \* AODSManager.is_active
    idle_checks,        \* pending root.after(check_interval_ms, _check_idle) callbacks
    monitoring,         \* whether start_monitoring was called, and whether it bound the events
    events,             \* what the user did to the screensaver and its settings, counted
    users_file,         \* users.json of the data directory: username -> password hash
    session_file,       \* session.json of the data directory: None or the username in it
    users,              \* UserManager.users of each manager: username -> password hash
    current_user,       \* UserManager.current_user of each manager: None or a username
    session_event       \* the last call that changed the session: none, login or logout

solverVars == <<size, grid, pc, call, ret, pressed, M, prow, pcol, cur, todo, rng, oracle>>

robotVars == <<grid_width, grid_height, checkpoints, state, pathpos>>

guiVars == <<current_puzzle, current_solution, puzzle_solved_flag, window, frames,
             timers, completed, clicks>>

aodsVars == <<settings_enabled, idle_time_ms, is_active, idle_checks, monitoring, events>>

userVars == <<users_file, session_file, users, current_user, session_event>>

demoVars == <<aodsVars, userVars>>

vars == <<solverVars, robotVars, guiVars, demoVars>>

(***************************************************************************)
(* Bounds of the model.                                                    *)
(***************************************************************************)
MaxSize == 4        \* solver sizes 1..MaxSize
MaxCells == 9       \* caller grids have their lit cells among the first MaxCells cells
MaxShuffle == 9     \* move lists up to this length are replayed in every order
MaxSeqSize == 3     \* grid sizes 1..MaxSeqSize for press sequences
MaxLit == 1         \* start grids of a press sequence have at most MaxLit lit cells
MaxPresses == 2     \* presses in a press sequence
MaxSeed == 63       \* seeds 0..MaxSeed
TapeLen == 3        \* period of the modelled random stream
RawRange == 4       \* the modelled generator puts out raw values 0..RawRange-1

Sizes == 1..MaxSize

Bit == {0, 1}

Idx(n) == 0..(n - 1)

Grids(n) == [Idx(n) -> [Idx(n) -> Bit]]

ZeroGrid(n) == [r \in Idx(n) |-> [c \in Idx(n) |-> 0]]

\* The value a variable holds while it is not in use.
Unused == [kind |-> "unused"]

\* no robot controller in this run
RobotUnused ==
    /\ grid_width = 0
    /\ grid_height = 0
    /\ checkpoints = {}
    /\ state = Unused
    /\ pathpos = 0

\* no game window in this run
GuiUnused ==
    /\ current_puzzle = Unused
    /\ current_solution = Unused
    /\ puzzle_solved_flag = FALSE
    /\ window = [status |-> "none", cells |-> "none"]
    /\ frames = << >>
    /\ timers = 0
    /\ completed = << >>
    /\ clicks = 0

\* no screensaver and no accounts in this run
DemoUnused ==
    /\ settings_enabled = FALSE
    /\ idle_time_ms = 0
    /\ is_active = FALSE
    /\ idle_checks = 0
    /\ monitoring = "no"
    /\ events = 0
    /\ users_file = << >>
    /\ session_file = Unused
    /\ users = << >>
    /\ current_user = << >>
    /\ session_event = Unused

(***************************************************************************)
(* Index arithmetic (lights_out.py 19-25).                                 *)
(***************************************************************************)
pos_to_idx(n, row, col) == row * n + col

idx_to_pos(n, idx) == <<idx \div n, idx % n>>

(***************************************************************************)
(* Python list indexing: list[i] accepts -len <= i < len and counts a      *)
(* negative i from the end; anything else raises IndexError.               *)
(***************************************************************************)
PyInRange(i, len) == -len <= i /\ i < len

PyNorm(i, len) == IF i < 0 THEN i + len ELSE i

(***************************************************************************)
(* apply_move (lights_out.py 134-161) on a store of row objects.  The      *)
(* store is a sequence of rows; an outer list is a function from row       *)
(* number to the row object's place in the store.                          *)
(***************************************************************************)
\* line 145, a plausible slip: new_grid = grid[:] (the rows are shared)
ShallowCopy(heap, g, n) == [heap |-> heap, ref |-> g]

\* line 145: new_grid = [row[:] for row in grid]
DeepCopy(heap, g, n) ==
    [heap |-> heap \o [k \in 1..n |-> heap[g[k - 1]]],
     ref  |-> [r \in Idx(n) |-> Len(heap) + r + 1]]

\* lines 148-156, a plausible slip: the neighbours are added without the edge tests
ToggleListNoEdge(n, row, col) ==
    << <<row, col>>, <<row - 1, col>>, <<row + 1, col>>, <<row, col - 1>>, <<row, col + 1>> >>

\* lines 148-156
ToggleList(n, row, col) ==
    << <<row, col>> >>
    \o (IF row > 0 THEN << <<row - 1, col>> >> ELSE << >>)
    \o (IF row < n - 1 THEN << <<row + 1, col>> >> ELSE << >>)
    \o (IF col > 0 THEN << <<row, col - 1>> >> ELSE << >>)
    \o (IF col < n - 1 THEN << <<row, col + 1>> >> ELSE << >>)

\* line 159, a plausible slip: the cell is switched on instead of flipped
SetCell(v) == 1

\* line 159: 1 - new_grid[r][c]
FlipCell(v) == 1 - v

\* line 159, a plausible slip: the pressed cell is read in place of the toggled
\* one, new_grid[r][c] = 1 - new_grid[row][col]
RECURSIVE ToggleLoopReadsFirst(_, _, _, _, _)
ToggleLoopReadsFirst(heap, new_grid, toggles, k, n) ==
    IF k > Len(toggles)
    THEN [heap |-> heap, raised |-> FALSE]
    ELSE LET r == toggles[k][1]
             c == toggles[k][2]
             r1 == toggles[1][1]
             c1 == toggles[1][2]
         IN  IF ~PyInRange(r, n) \/ ~PyInRange(c, n)
             THEN [heap |-> heap, raised |-> TRUE]
             ELSE LET id == new_grid[PyNorm(r, n)]
                      cc == PyNorm(c, n)
                      v1 == heap[new_grid[PyNorm(r1, n)]][PyNorm(c1, n)]
                  IN  ToggleLoopReadsFirst([heap EXCEPT ![id][cc] = 1 - v1],
                                           new_grid, toggles, k + 1, n)

\* lines 158-159: for r, c in toggles: new_grid[r][c] = 1 - new_grid[r][c]
RECURSIVE ToggleLoop(_, _, _, _, _)
ToggleLoop(heap, new_grid, toggles, k, n) ==
    IF k > Len(toggles)
    THEN [heap |-> heap, raised |-> FALSE]
    ELSE LET r == toggles[k][1]
             c == toggles[k][2]
         IN  IF ~PyInRange(r, n) \/ ~PyInRange(c, n)
             THEN [heap |-> heap, raised |-> TRUE]
             ELSE LET id == new_grid[PyNorm(r, n)]
                      cc == PyNorm(c, n)
                  IN  ToggleLoop([heap EXCEPT ![id][cc] = FlipCell(@)],
                                 new_grid, toggles, k + 1, n)

\* lines 134-161: the store after the call, whether it raised, and the list returned
apply_move_store(heap, g, row, col, n) ==
    LET cp == DeepCopy(heap, g, n)
        lp == ToggleLoop(cp.heap, cp.ref, ToggleList(n, row, col), 1, n)
    IN  [heap |-> lp.heap, raised |-> lp.raised, ref |-> cp.ref]

\* The caller's grid laid out in a fresh store, and read back from one.
Store(g, n) == [k \in 1..n |-> g[k - 1]]

CallerRef(n) == [r \in Idx(n) |-> r + 1]

Deref(heap, ref, n) == [r \in Idx(n) |-> heap[ref[r]]]

\* apply_move as its callers see it: the returned grid (or the error) and the
\* argument object after the call.
apply_move(g, row, col, n) ==
    LET res == apply_move_store(Store(g, n), CallerRef(n), row, col, n)
    IN  [ret |-> IF res.raised
                 THEN [kind |-> "IndexError"]
                 ELSE [kind |-> "grid", val |-> Deref(res.heap, res.ref, n)],
         arg |-> Deref(res.heap, CallerRef(n), n)]

\* The grid apply_move returns for an in-range press.
Press(g, row, col, n) == apply_move(g, row, col, n).ret.val

\* line 172, a plausible slip: any() for all()
AnyCellOff(g, n) == \E r \in Idx(n) : \E c \in Idx(n) : g[r][c] = 0

\* lines 163-172: all(cell == 0 for row in grid for cell in row)
is_solved(g, n) == \A r \in Idx(n) : \A c \in Idx(n) : g[r][c] = 0

(***************************************************************************)
(* _build_transition_matrix (lights_out.py 27-52).                         *)
(***************************************************************************)
\* lines 38-46, a plausible slip: the neighbours are added without the edge tests
MatrixTogglesNoEdge(n, row, col) ==
    << <<row, col>>, <<row - 1, col>>, <<row + 1, col>>, <<row, col - 1>>, <<row, col + 1>> >>

\* lines 38-46: the cells that pressing (row, col) toggles
MatrixToggles(n, row, col) ==
    << <<row, col>> >>
    \o (IF row > 0 THEN << <<row - 1, col>> >> ELSE << >>)
    \o (IF row < n - 1 THEN << <<row + 1, col>> >> ELSE << >>)
    \o (IF col > 0 THEN << <<row, col - 1>> >> ELSE << >>)
    \o (IF col < n - 1 THEN << <<row, col + 1>> >> ELSE << >>)

\* lines 33-52: A[i, j] = 1 for every j among the toggles of cell i
build_transition_matrix(n) ==
    [i \in Idx(n * n) |->
        LET p == idx_to_pos(n, i)
            t == MatrixToggles(n, p[1], p[2])
        IN  [j \in Idx(n * n) |->
                IF \E k \in 1..Len(t) : pos_to_idx(n, t[k][1], t[k][2]) = j
                THEN 1 ELSE 0]]

(***************************************************************************)
(* _solve_gf2 (lights_out.py 81-132).  NN is len(b), the number of cells.  *)
(***************************************************************************)
\* line 64: b = np.array(grid, dtype=int).flatten()
Flatten(g, n) == [i \in Idx(n * n) |-> g[i \div n][i % n]]

\* line 93: M = np.hstack([A, b.reshape(-1, 1)])
Augment(A, b, NN) ==
    [r \in Idx(NN) |-> [c \in 0..NN |-> IF c < NN THEN A[r][c] ELSE b[r]]]

Min(S) == CHOOSE x \in S : \A y \in S : x <= y

\* line 114, a plausible slip: the rows are added without the reduction mod 2
AddRowsNoMod(a, b, NN) == [c \in 0..NN |-> a[c] + b[c]]

\* line 114: (M[r] + M[row]) % 2
AddRows(a, b, NN) == [c \in 0..NN |-> (a[c] + b[c]) % 2]

\* lines 112-114, a plausible slip: only the rows below the pivot row are cleared
ElimColumnBelowOnly(m, row, col, NN) ==
    LET cand == {r \in row..(NN - 1) : m[r][col] = 1}
    IN  IF cand = {}
        THEN [M |-> m, row |-> row]
        ELSE LET pivot == Min(cand)
                 sw == [m EXCEPT ![row] = m[pivot], ![pivot] = m[row]]
                 el == [r \in Idx(NN) |->
                            IF r > row /\ sw[r][col] = 1
                            THEN AddRows(sw[r], sw[row], NN)
                            ELSE sw[r]]
             IN  [M |-> el, row |-> row + 1]

\* lines 105-106, a plausible slip: without the `continue`, row is advanced for a
\* column without a pivot too
ElimColumnAlwaysAdvance(m, row, col, NN) ==
    LET cand == {r \in row..(NN - 1) : m[r][col] = 1}
    IN  IF cand = {}
        THEN [M |-> m, row |-> row + 1]
        ELSE LET pivot == Min(cand)
                 sw == [m EXCEPT ![row] = m[pivot], ![pivot] = m[row]]
                 el == [r \in Idx(NN) |->
                            IF r # row /\ sw[r][col] = 1
                            THEN AddRows(sw[r], sw[row], NN)
                            ELSE sw[r]]
             IN  [M |-> el, row |-> row + 1]

\* lines 98-116: one iteration of the loop over col
ElimColumn(m, row, col, NN) ==
    LET cand == {r \in row..(NN - 1) : m[r][col] = 1}
    IN  IF cand = {}
        THEN [M |-> m, row |-> row]
        ELSE LET pivot == Min(cand)
                 sw == [m EXCEPT ![row] = m[pivot], ![pivot] = m[row]]
                 el == [r \in Idx(NN) |->
                            IF r # row /\ sw[r][col] = 1
                            THEN AddRows(sw[r], sw[row], NN)
                            ELSE sw[r]]
             IN  [M |-> el, row |-> row + 1]

\* lines 97-116: the iterations from col on
RECURSIVE Eliminate(_, _, _, _)
Eliminate(m, row, col, NN) ==
    IF col >= NN
    THEN [M |-> m, row |-> row]
    ELSE LET s == ElimColumn(m, row, col, NN)
         IN  Eliminate(s.M, s.row, col + 1, NN)

\* lines 119-121, a plausible slip: the check is left out
NeverInconsistent(m, row, NN) == FALSE

\* lines 119-121: a zero row with augmented entry 1
Inconsistent(m, row, NN) ==
    \E r \in row..(NN - 1) :
        m[r][NN] = 1 /\ \A c \in Idx(NN) : m[r][c] = 0

\* line 129, a plausible slip: pivot_col[-1], the last column holding a 1, for
\* pivot_col[0]
RECURSIVE BackSubstituteLastOne(_, _, _, _, _)
BackSubstituteLastOne(m, row, i, x, NN) ==
    IF i >= NN
    THEN x
    ELSE LET ones == {c \in Idx(NN) : m[i][c] = 1}
         IN  IF i < row /\ ones # {}
             THEN BackSubstituteLastOne(m, row, i + 1,
                      [x EXCEPT ![CHOOSE c \in ones : \A d \in ones : d <= c] = m[i][NN]], NN)
             ELSE BackSubstituteLastOne(m, row, i + 1, x, NN)

\* lines 128-130: x[pivot_col[0]] = M[i, -1] for the rows i below `row`, in
\* increasing order of i (a later row overwrites an earlier one)
RECURSIVE BackSubstitute(_, _, _, _, _)
BackSubstitute(m, row, i, x, NN) ==
    IF i >= NN
    THEN x
    ELSE LET ones == {c \in Idx(NN) : m[i][c] = 1}
         IN  IF i < row /\ ones # {}
             THEN BackSubstitute(m, row, i + 1, [x EXCEPT ![Min(ones)] = m[i][NN]], NN)
             ELSE BackSubstitute(m, row, i + 1, x, NN)

\* lines 123-130, a plausible slip: the free variables are set to 1 (and the
\* pivot variables to what then solves their rows) instead of left at 0
FinishFreeOnes(m, row, NN) ==
    IF Inconsistent(m, row, NN)
    THEN [kind |-> "None"]
    ELSE LET pivots == {c \in Idx(NN) :
                           \E i \in 0..(row - 1) :
                               m[i][c] = 1 /\ \A d \in 0..(c - 1) : m[i][d] = 0}
             rowOf(c) == CHOOSE i \in 0..(row - 1) :
                             m[i][c] = 1 /\ \A d \in 0..(c - 1) : m[i][d] = 0
         IN  [kind |-> "vector",
              val  |-> [c \in Idx(NN) |->
                           IF c \in pivots
                           THEN (m[rowOf(c)][NN]
                                 + Cardinality({d \in Idx(NN) \ pivots : m[rowOf(c)][d] = 1})) % 2
                           ELSE 1]]

\* lines 118-132: what _solve_gf2 returns from the eliminated matrix
Finish(m, row, NN) ==
    IF Inconsistent(m, row, NN)
    THEN [kind |-> "None"]
    ELSE [kind |-> "vector",
          val  |-> BackSubstitute(m, row, 0, [c \in Idx(NN) |-> 0], NN)]

\* lines 81-132
solve_gf2(A, b, NN) ==
    LET e == Eliminate(Augment(A, b, NN), 0, 0, NN)
    IN  Finish(e.M, e.row, NN)

\* lines 74-77, a plausible slip: each new move is put at the front of the list
RECURSIVE MovesFromFront(_, _, _)
MovesFromFront(x, i, n) ==
    IF i >= n * n
    THEN << >>
    ELSE MovesFromFront(x, i + 1, n) \o (IF x[i] = 1 THEN << idx_to_pos(n, i) >> ELSE << >>)

\* lines 74-77: the positions of the ones of the solution, in index order
RECURSIVE MovesFrom(_, _, _)
MovesFrom(x, i, n) ==
    IF i >= n * n
    THEN << >>
    ELSE (IF x[i] = 1 THEN << idx_to_pos(n, i) >> ELSE << >>) \o MovesFrom(x, i + 1, n)

\* lines 70-79: the value solve returns for the value _solve_gf2 returned
MovesOf(solution, n) ==
    IF solution.kind = "None"
    THEN [kind |-> "None"]
    ELSE [kind |-> "moves", val |-> MovesFrom(solution.val, 0, n)]

\* lines 54-79
solve(g, n) ==
    MovesOf(solve_gf2(build_transition_matrix(n), Flatten(g, n), n * n), n)

(***************************************************************************)
(* The grids a caller hands in.                                            *)
(***************************************************************************)
GridOf(S, n) == [r \in Idx(n) |-> [c \in Idx(n) |-> IF pos_to_idx(n, r, c) \in S THEN 1 ELSE 0]]

FirstCells(n) == {i \in Idx(n * n) : i < MaxCells}

\* every grid whose lit cells are among the first MaxCells cells (all grids up to 3 x 3)
CallerGrids(n) == {GridOf(S, n) : S \in SUBSET FirstCells(n)}

\* every grid with at most MaxLit lit cells
StartGrids(n) == {GridOf(S, n) : S \in {T \in SUBSET Idx(n * n) : Cardinality(T) <= MaxLit}}

\* the row and column arguments tried: the range of the grid and beyond it on both sides
Coords(n) == (-n - 1)..n

InBounds(n, row, col) == 0 <= row /\ row < n /\ 0 <= col /\ col < n

(***************************************************************************)
(* SpecMove: a caller holding a grid calls apply_move, is_solved and solve *)
(* on it and looks at the result and at its own grid afterwards.           *)
(***************************************************************************)
InitMove ==
    /\ size \in Sizes
    /\ grid \in CallerGrids(size)
    /\ pc = "idle"
    /\ call = Unused
    /\ ret = Unused
    /\ pressed = Unused
    /\ M = Unused
    /\ prow = 0
    /\ pcol = 0
    /\ cur = Unused
    /\ todo = {}
    /\ rng = Unused
    /\ oracle = Unused
    /\ RobotUnused
    /\ GuiUnused
    /\ DemoUnused

\* result = solver.apply_move(grid, row, col)
CallApplyMove(row, col) ==
    /\ pc = "idle"
    /\ \E res \in {apply_move(grid, row, col, size)} :
          /\ ret' = res.ret
          /\ grid' = res.arg
    /\ call' = [op |-> "apply_move", row |-> row, col |-> col, before |-> grid]
    /\ pc' = "returned"
    /\ UNCHANGED <<size, pressed, M, prow, pcol, cur, todo, rng, oracle, robotVars, guiVars, demoVars>>

\* solver.is_solved(grid)
CallIsSolved ==
    /\ pc = "idle"
    /\ ret' = [kind |-> "bool", val |-> is_solved(grid, size)]
    /\ call' = [op |-> "is_solved", before |-> grid]
    /\ pc' = "returned"
    /\ UNCHANGED <<size, grid, pressed, M, prow, pcol, cur, todo, rng, oracle, robotVars, guiVars, demoVars>>

\* solver.solve(grid): line 64 copies the grid into a new array, and nothing
\* after it writes to the argument
CallSolve ==
    /\ pc = "idle"
    /\ ret' = solve(grid, size)
    /\ call' = [op |-> "solve", before |-> grid]
    /\ pc' = "returned"
    /\ UNCHANGED <<size, grid, pressed, M, prow, pcol, cur, todo, rng, oracle, robotVars, guiVars, demoVars>>

\* the caller drops the result
Return ==
    /\ pc = "returned"
    /\ pc' = "idle"
    /\ call' = Unused
    /\ ret' = Unused
    /\ UNCHANGED <<size, grid, pressed, M, prow, pcol, cur, todo, rng, oracle, robotVars, guiVars, demoVars>>

NextMove ==
    \/ \E row \in Coords(size) : \E col \in Coords(size) : CallApplyMove(row, col)
    \/ CallIsSolved
    \/ CallSolve
    \/ Return

SpecMove == InitMove /\ [][NextMove]_vars

(***************************************************************************)
(* SpecSeq: current = apply_move(current, row, col), again and again       *)
(* (tests/test_puzzle.py 27-29), from a start grid kept in call.start.     *)
(***************************************************************************)
InitSeq ==
    /\ size \in 1..MaxSeqSize
    /\ grid \in StartGrids(size)
    /\ pc = "pressing"
    /\ call = [op |-> "presses", start |-> grid]
    /\ ret = Unused
    /\ pressed = [i \in Idx(size * size) |-> 0]
    /\ M = Unused
    /\ prow = 0
    /\ pcol = 0
    /\ cur = Unused
    /\ todo = {}
    /\ rng = Unused
    /\ oracle = Unused
    /\ RobotUnused
    /\ GuiUnused
    /\ DemoUnused

RECURSIVE Sum(_, _)
Sum(f, S) == IF S = {} THEN 0 ELSE LET x == CHOOSE y \in S : TRUE IN f[x] + Sum(f, S \ {x})

PressCell(row, col) ==
    /\ pc = "pressing"
    /\ Sum(pressed, DOMAIN pressed) < MaxPresses
    /\ grid' = Press(grid, row, col, size)
    /\ pressed' = [pressed EXCEPT ![pos_to_idx(size, row, col)] = @ + 1]
    /\ UNCHANGED <<size, pc, call, ret, M, prow, pcol, cur, todo, rng, oracle, robotVars, guiVars, demoVars>>

NextSeq == \E row \in Idx(size) : \E col \in Idx(size) : PressCell(row, col)

SpecSeq == InitSeq /\ [][NextSeq]_vars

(***************************************************************************)
(* SpecSolve: solve(grid) step by step, one step per column of the         *)
(* elimination.                                                            *)
(***************************************************************************)
InitSolve ==
    /\ size \in Sizes
    /\ grid \in CallerGrids(size)
    /\ pc = "idle"
    /\ call = Unused
    /\ ret = Unused
    /\ pressed = Unused
    /\ M = Unused
    /\ prow = 0
    /\ pcol = 0
    /\ cur = Unused
    /\ todo = {}
    /\ rng = Unused
    /\ oracle = Unused
    /\ RobotUnused
    /\ GuiUnused
    /\ DemoUnused

\* lines 64-65 and 91-96: the augmented matrix, row = 0
SolveBegin ==
    /\ pc = "idle"
    /\ M' = Augment(build_transition_matrix(size), Flatten(grid, size), size * size)
    /\ prow' = 0
    /\ pcol' = 0
    /\ call' = [op |-> "solve", before |-> grid]
    /\ pc' = "elim"
    /\ UNCHANGED <<size, grid, ret, pressed, cur, todo, rng, oracle, robotVars, guiVars, demoVars>>

\* lines 97-116: the loop body for col = pcol
ElimStep ==
    /\ pc = "elim"
    /\ pcol < size * size
    /\ \E s \in {ElimColumn(M, prow, pcol, size * size)} :
          /\ M' = s.M
          /\ prow' = s.row
    /\ pcol' = pcol + 1
    /\ UNCHANGED <<size, grid, pc, call, ret, pressed, cur, todo, rng, oracle, robotVars, guiVars, demoVars>>

\* lines 118-132 and 70-79: the check, the back substitution, the move list
SolveEnd ==
    /\ pc = "elim"
    /\ pcol = size * size
    /\ ret' = MovesOf(Finish(M, prow, size * size), size)
    /\ pc' = "solved"
    /\ UNCHANGED <<size, grid, call, pressed, M, prow, pcol, cur, todo, rng, oracle, robotVars, guiVars, demoVars>>

NextSolve ==
    \/ SolveBegin
    \/ ElimStep
    \/ SolveEnd

SpecSolve == InitSolve /\ [][NextSolve]_vars

(***************************************************************************)
(* SpecReplay: solve(grid) has returned; the caller applies the returned   *)
(* moves to its grid, in any order (tests/test_puzzle.py 23-31).           *)
(***************************************************************************)
InitReplay ==
    /\ size \in Sizes
    /\ grid \in CallerGrids(size)
    /\ pc = "solved"
    /\ call = [op |-> "solve", before |-> grid]
    /\ ret = solve(grid, size)
    /\ pressed = Unused
    /\ M = Unused
    /\ prow = 0
    /\ pcol = 0
    /\ cur = Unused
    /\ todo = {}
    /\ rng = Unused
    /\ oracle = Unused
    /\ RobotUnused
    /\ GuiUnused
    /\ DemoUnused

\* the caller starts applying the moves to its grid (tests/test_puzzle.py 27)
ReplayBegin ==
    /\ pc = "solved"
    /\ ret.kind = "moves"
    /\ cur' = grid
    /\ todo' = 1..Len(ret.val)
    /\ pc' = "replay"
    /\ UNCHANGED <<size, grid, call, ret, pressed, M, prow, pcol, rng, oracle, robotVars, guiVars, demoVars>>

\* current = solver.apply_move(current, move[0], move[1]), for any move still to do
\* (for the first one still to do, when the list is longer than MaxShuffle)
ReplayMove ==
    /\ pc = "replay"
    /\ \E k \in todo :
          /\ Len(ret.val) > MaxShuffle => k = Min(todo)
          /\ cur' = Press(cur, ret.val[k][1], ret.val[k][2], size)
          /\ todo' = todo \ {k}
    /\ UNCHANGED <<size, grid, pc, call, ret, pressed, M, prow, pcol, rng, oracle, robotVars, guiVars, demoVars>>

NextReplay ==
    \/ ReplayBegin
    \/ ReplayMove

SpecReplay == InitReplay /\ [][NextReplay]_vars

(***************************************************************************)
(* SpecSolvable: SpecSolve with, beside each grid, the answer to "does     *)
(* some set of cells, each pressed once, drive it to all-off".  DrivenOff  *)
(* states that with apply_move, over all 2^(n*n) sets.  Solvable finds the *)
(* same answer from the top row alone: with the presses of rows 0..r       *)
(* fixed, cell (r, c) can only still be changed by a press of (r+1, c),    *)
(* so row r+1 must press exactly under the cells of row r that are lit,    *)
(* and a set drives the grid off iff the last row then ends dark.          *)
(* SolvableIsDrivenOff compares the two.                                   *)
(***************************************************************************)
\* some subset of the first k cells, pressed one after the other, drives g to all-off
RECURSIVE DrivenOff(_, _, _)
DrivenOff(g, k, n) ==
    IF k = 0
    THEN is_solved(g, n)
    ELSE LET p == idx_to_pos(n, k - 1)
         IN  DrivenOff(g, k - 1, n) \/ DrivenOff(Press(g, p[1], p[2], n), k - 1, n)

\* row r of g after the presses `above` in row r-1 and `here` in row r
LitAfter(g, above, here, r, n) ==
    [c \in Idx(n) |->
        (g[r][c] + above[c] + here[c]
         + (IF c > 0 THEN here[c - 1] ELSE 0)
         + (IF c < n - 1 THEN here[c + 1] ELSE 0)) % 2]

\* rows r+1.. press under what is lit; does the last row end dark
RECURSIVE Chase(_, _, _, _, _)
Chase(g, above, here, r, n) ==
    LET lit == LitAfter(g, above, here, r, n)
    IN  IF r = n - 1
        THEN \A c \in Idx(n) : lit[c] = 0
        ELSE Chase(g, here, lit, r + 1, n)

Solvable(g, n) ==
    \E top \in [Idx(n) -> Bit] : Chase(g, [c \in Idx(n) |-> 0], top, 0, n)

\* the press sets the chase from a given top row finds (one or none): rows
\* 0..r-1 are pressed as in acc, row r as in `here`
RECURSIVE ChasePresses(_, _, _, _, _, _)
ChasePresses(g, above, here, r, n, acc) ==
    LET lit == LitAfter(g, above, here, r, n)
        all == acc \cup {r * n + c : c \in {d \in Idx(n) : here[d] = 1}}
    IN  IF r = n - 1
        THEN IF \A c \in Idx(n) : lit[c] = 0 THEN {all} ELSE {}
        ELSE ChasePresses(g, here, lit, r + 1, n, all)

\* every set of cells (as indices row * n + col) that drives g to all-off
Solutions(g, n) ==
    UNION {ChasePresses(g, [c \in Idx(n) |-> 0], top, 0, n, {}) : top \in [Idx(n) -> Bit]}

\* pressing the cells of S, each once, in index order
RECURSIVE PressAll(_, _, _)
PressAll(g, S, n) ==
    IF S = {}
    THEN g
    ELSE LET i == Min(S)
         IN  PressAll(Press(g, i \div n, i % n, n), S \ {i}, n)

InitSolvable ==
    /\ size \in Sizes
    /\ grid \in CallerGrids(size)
    /\ oracle = Solvable(grid, size)
    /\ RobotUnused
    /\ GuiUnused
    /\ DemoUnused
    /\ pc = "idle"
    /\ call = Unused
    /\ ret = Unused
    /\ pressed = Unused
    /\ M = Unused
    /\ prow = 0
    /\ pcol = 0
    /\ cur = Unused
    /\ todo = {}
    /\ rng = Unused

SpecSolvable == InitSolvable /\ [][NextSolve]_vars

\* up to 3 x 3, where every press set can be tried, the two agree
SolvableIsDrivenOff ==
    (pc = "idle" /\ size <= 3) => oracle = DrivenOff(grid, size * size, size)

\* and the chase finds exactly the press sets that drive the grid off
SolutionsAreDrivenOff ==
    (pc = "idle" /\ size <= 3) =>
        Solutions(grid, size)
            = {S \in SUBSET Idx(size * size) : is_solved(PressAll(grid, S, size), size)}

(***************************************************************************)
(* numpy's process-wide generator, as lights_out.py uses it.  A state is a *)
(* cyclic tape of raw values and a position on it; seeding with s puts in  *)
(* the tape whose entries are the base-RawRange digits of s (the seeds     *)
(* 0..RawRange^TapeLen-1 give every tape).  NoSeed stands for None.        *)
(***************************************************************************)
NoSeed == -1

RECURSIVE Power(_, _)
Power(b, e) == IF e = 0 THEN 1 ELSE b * Power(b, e - 1)

Seeds == 0..MaxSeed

TapeOf(seed) == [i \in Idx(TapeLen) |-> (seed \div Power(RawRange, i)) % RawRange]

\* np.random.seed(seed)
Seeded(seed) == [tape |-> TapeOf(seed), pos |-> 0]

\* np.random.randint(low, high): a value in low..high-1, and the generator after it
randint(r, low, high) ==
    [val |-> low + (r.tape[r.pos] % (high - low)),
     rng |-> [r EXCEPT !.pos = (r.pos + 1) % TapeLen]]

(***************************************************************************)
(* generate_random_puzzle (lights_out.py 174-195).                         *)
(***************************************************************************)
\* lines 183-184, a plausible slip: the seed is never given to the generator
ReseedNever(r, seed) == r

\* lines 183-184: if seed is not None: np.random.seed(seed)
Reseed(r, seed) == IF seed # NoSeed THEN Seeded(seed) ELSE r

\* lines 190-193: the remaining `left` iterations of the loop
RECURSIVE MoveLoop(_, _, _, _)
MoveLoop(g, r, left, n) ==
    IF left = 0
    THEN [grid |-> g, rng |-> r]
    ELSE LET dr == randint(r, 0, n)
             dc == randint(dr.rng, 0, n)
         IN  MoveLoop(Press(g, dr.val, dc.val, n), dc.rng, left - 1, n)

\* lines 183-195: the grid returned and the generator state left behind
generate_random_puzzle(r, seed, n) ==
    LET r0 == Reseed(r, seed)
        nm == randint(r0, 1, n * n + 1)
    IN  MoveLoop(ZeroGrid(n), nm.rng, nm.val, n)

(***************************************************************************)
(* SpecGen: a process calls generate_random_puzzle with and without a seed *)
(* and solves what it got (tests/test_puzzle.py 18-24, __main__.py         *)
(* 816-818).                                                               *)
(***************************************************************************)
InitGen ==
    /\ size \in Sizes
    /\ rng \in {Seeded(s) : s \in Seeds}
    /\ pc = "idle"
    /\ grid = Unused
    /\ call = Unused
    /\ ret = Unused
    /\ pressed = Unused
    /\ M = Unused
    /\ prow = 0
    /\ pcol = 0
    /\ cur = Unused
    /\ todo = {}
    /\ oracle = Unused
    /\ RobotUnused
    /\ GuiUnused
    /\ DemoUnused

\* puzzle = solver.generate_random_puzzle(seed); call.moved tells whether the
\* generator was, before the call, in another state than the seed puts it in
CallGenerate(seed) ==
    /\ pc = "idle"
    /\ \E res \in {generate_random_puzzle(rng, seed, size)} :
          /\ ret' = [kind |-> "grid", val |-> res.grid]
          /\ rng' = res.rng
    /\ call' = [op |-> "generate", seed |-> seed,
                moved |-> (seed # NoSeed /\ rng # Seeded(seed))]
    /\ pc' = "returned"
    /\ UNCHANGED <<size, grid, pressed, M, prow, pcol, cur, todo, oracle, robotVars, guiVars, demoVars>>

\* solution = solver.solve(puzzle)
CallSolveGenerated ==
    /\ pc = "returned"
    /\ call.op = "generate"
    /\ ret' = solve(ret.val, size)
    /\ call' = [op |-> "solve", before |-> ret.val]
    /\ pc' = "returned"
    /\ UNCHANGED <<size, grid, pressed, M, prow, pcol, cur, todo, rng, oracle, robotVars, guiVars, demoVars>>

NextGen ==
    \/ \E seed \in Seeds \cup {NoSeed} : CallGenerate(seed)
    \/ CallSolveGenerated
    \/ Return

SpecGen == InitGen /\ [][NextGen]_vars

(***************************************************************************)
(* Properties of apply_move and is_solved, under SpecMove.                 *)
(***************************************************************************)
Returned(op) == pc = "returned" /\ call.op = op

InBoundsCall == Returned("apply_move") /\ InBounds(size, call.row, call.col)

OutOfBoundsCall == Returned("apply_move") /\ ~InBounds(size, call.row, call.col)

\* the pressed cell and those of its four orthogonal neighbours that lie in the grid
Plus(n, row, col) ==
    {p \in Idx(n) \X Idx(n) :
        \/ p = <<row, col>>
        \/ p = <<row - 1, col>>
        \/ p = <<row + 1, col>>
        \/ p = <<row, col - 1>>
        \/ p = <<row, col + 1>>}

\* C4: pressing a cell of the grid twice gives the grid back: after
\* apply_move(g, r, c) returned h for an in-bounds (r, c), apply_move(h, r, c) is g.
C4_DoublePress ==
    InBoundsCall =>
        /\ ret.kind = "grid"
        /\ apply_move(ret.val, call.row, call.col, size).ret
             = [kind |-> "grid", val |-> call.before]

C4_Witness ==
    /\ InBoundsCall
    /\ ret.kind = "grid"
    /\ ret.val # call.before
    /\ ~is_solved(call.before, size)

\* C6: an in-bounds apply_move(g, r, c) returns a grid that has every cell of the
\* plus centred at (r, c) flipped and every other cell as in g; the centre press
\* of the all-off 3 x 3 grid gives [[0,1,0],[1,1,1],[0,1,0]].
C6_TogglesPlus ==
    InBoundsCall =>
        /\ ret.kind = "grid"
        /\ \A r \in Idx(size) : \A c \in Idx(size) :
              ret.val[r][c] = IF <<r, c>> \in Plus(size, call.row, call.col)
                              THEN 1 - call.before[r][c]
                              ELSE call.before[r][c]
        /\ (size = 3 /\ call.before = ZeroGrid(3) /\ call.row = 1 /\ call.col = 1)
              => ret.val = GridOf({1, 3, 4, 5, 7}, 3)

C6_Witness ==
    /\ InBoundsCall
    /\ size = 3
    /\ call.before = ZeroGrid(3)
    /\ call.row = 1
    /\ call.col = 1
    /\ ret = [kind |-> "grid", val |-> GridOf({1, 3, 4, 5, 7}, 3)]

\* C7: apply_move with a row or column outside [0, size) is rejected with an
\* error and returns no grid.
C7_OutOfRangeRejected == OutOfBoundsCall => ret.kind = "IndexError"

\* C8: neither apply_move nor solve changes the caller's grid: when the call has
\* returned (a value, None or an error) the grid holds what it held before.
C8_CallerGridUnchanged ==
    (Returned("apply_move") \/ Returned("solve")) => grid = call.before

C8_Witness ==
    /\ Returned("apply_move")
    /\ ret.kind = "grid"
    /\ ret.val # call.before
    /\ grid = call.before

\* C9: is_solved(g) is true exactly when no cell of g is lit.
C9_SolvedIffAllOff ==
    Returned("is_solved") =>
        /\ ret.kind = "bool"
        /\ ret.val = ({i \in Idx(size * size) : Flatten(call.before, size)[i] # 0} = {})

C9_Witness ==
    /\ Returned("is_solved")
    /\ size = 3
    /\ call.before = GridOf({0}, 3)
    /\ ret.val = FALSE

(***************************************************************************)
(* Properties of solve, under SpecReplay and SpecSolvable.                 *)
(***************************************************************************)
SolveReturned == pc \in {"solved", "replay"} /\ call.op = "solve"

CentreOn == GridOf({4}, 3)

\* C1: when solve(g) returns a move list, applying all its moves to g, in whatever
\* order, gives a grid that is_solved accepts; for the 3 x 3 grid with only the
\* centre lit the list is not empty.
C1_SolutionSolves ==
    /\ (pc = "replay" /\ todo = {}) => is_solved(cur, size)
    /\ (SolveReturned /\ size = 3 /\ grid = CentreOn)
          => (ret.kind = "moves" /\ Len(ret.val) > 0)

C1_Witness ==
    /\ pc = "replay"
    /\ todo = {}
    /\ size = 4
    /\ Len(ret.val) >= 3
    /\ is_solved(cur, size)

\* C2: solve(g) returns None exactly when no set of presses drives g to all-off.
C2_NoneIffUnsolvable ==
    SolveReturned => ((ret.kind = "None") <=> ~oracle)

C2_Witness ==
    /\ SolveReturned
    /\ ret.kind = "None"
    /\ ~oracle

C2_WitnessSolvable ==
    /\ SolveReturned
    /\ size = 4
    /\ ret.kind = "moves"
    /\ oracle
    /\ ~is_solved(grid, size)

(***************************************************************************)
(* Properties of press sequences, under SpecSeq.                           *)
(***************************************************************************)
RECURSIVE Repeat(_, _, _, _, _)
Repeat(g, row, col, k, n) ==
    IF k = 0 THEN g ELSE Repeat(Press(g, row, col, n), row, col, k - 1, n)

\* the presses counted in counts, applied to g in the order of the cell index
RECURSIVE InIndexOrder(_, _, _, _)
InIndexOrder(g, counts, i, n) ==
    IF i >= n * n
    THEN g
    ELSE LET p == idx_to_pos(n, i)
         IN  InIndexOrder(Repeat(g, p[1], p[2], counts[i], n), counts, i + 1, n)

\* C5: the grid a sequence of in-bounds presses leads to is the same for every
\* order of the sequence: whatever order the presses were made in, the grid is
\* the one that the same presses give when made in the order of the cell index.
C5_OrderIrrelevant ==
    pc = "pressing" => grid = InIndexOrder(call.start, pressed, 0, size)

C5_Witness ==
    /\ pc = "pressing"
    /\ size = 3
    /\ ~is_solved(call.start, size)
    /\ Cardinality({i \in DOMAIN pressed : pressed[i] > 0}) >= 2
    /\ Sum(pressed, DOMAIN pressed) = MaxPresses

(***************************************************************************)
(* Properties of generate_random_puzzle, under SpecGen.                    *)
(***************************************************************************)
\* C3: solve accepts every generated puzzle: solve(generate_random_puzzle(seed))
\* is a move list, never None.
C3_GeneratedSolvable ==
    (Returned("solve") /\ rng # Unused) => ret.kind = "moves"

C3_Witness ==
    /\ Returned("solve")
    /\ rng # Unused
    /\ size = 4
    /\ ret.kind = "moves"
    /\ Len(ret.val) >= 2

\* C10: two calls generate_random_puzzle(seed) with the same integer seed return
\* the same grid, whatever was drawn between them: the grid a seeded call returns,
\* in whatever state it found the generator, is the grid the call returns when
\* nothing was drawn before it.
C10_SameSeedSameGrid ==
    (Returned("generate") /\ call.seed # NoSeed) =>
        ret.val = generate_random_puzzle(Seeded(call.seed), call.seed, size).grid

C10_Witness ==
    /\ Returned("generate")
    /\ call.seed # NoSeed
    /\ call.moved
    /\ size = 3
    /\ ~is_solved(ret.val, size)

\* C11: generate_random_puzzle neither reads nor writes the process-wide random
\* generator: a call leaves the generator's state exactly as it was.
C11_GeneratorUntouched ==
    [][(pc = "idle" /\ pc' = "returned" /\ call'.op = "generate") => rng' = rng]_vars

(***************************************************************************)
(* Claims about the solver's matrix, its solution vector and its move list *)
(* (SpecSolve, SpecSolvable).                                              *)
(***************************************************************************)
Abs(x) == IF x < 0 THEN -x ELSE x

\* cell j is cell i or an orthogonal neighbour of it, in an n x n grid
SelfOrNeighbour(n, i, j) ==
    Abs((i \div n) - (j \div n)) + Abs((i % n) - (j % n)) <= 1

\* the solver has just stacked its matrix A and the flattened grid into M
MatrixBuilt == pc = "elim" /\ pcol = 0

\* C12: the transition matrix is n*n by n*n, with A[i][j] = 1 exactly when cell j
\* is cell i or an in-grid orthogonal neighbour of it and 0 otherwise; it is
\* symmetric and every row has between 1 and 5 ones.
C12_ToggleMatrix ==
    MatrixBuilt =>
        /\ DOMAIN M = Idx(size * size)
        /\ \A i \in Idx(size * size) :
              /\ DOMAIN M[i] = 0..(size * size)
              /\ Cardinality({j \in Idx(size * size) : M[i][j] = 1}) \in 1..5
              /\ \A j \in Idx(size * size) :
                    /\ M[i][j] = (IF SelfOrNeighbour(size, i, j) THEN 1 ELSE 0)
                    /\ M[i][j] = M[j][i]

C12_Witness ==
    /\ MatrixBuilt
    /\ size = 3
    /\ Cardinality({j \in Idx(9) : M[4][j] = 1}) = 5
    /\ Cardinality({j \in Idx(9) : M[0][j] = 1}) = 3
    /\ M[2][3] = 0

\* solve has returned a move list; M and prow still hold the eliminated matrix
SolveGaveMoves == pc = "solved" /\ ret.kind = "moves"

\* the solution vector _solve_gf2 read off the eliminated matrix
SolutionVector ==
    BackSubstitute(M, prow, 0, [c \in Idx(size * size) |-> 0], size * size)

\* C13: a move list returned by solve holds exactly the (i div n, i mod n) of the
\* indices i whose solution bit is 1, in strictly increasing order of
\* i = row * n + col: no cell twice, every pair inside the grid.
C13_MovesInIndexOrder ==
    SolveGaveMoves =>
        /\ \A k \in 1..Len(ret.val) :
              /\ ret.val[k][1] \in Idx(size)
              /\ ret.val[k][2] \in Idx(size)
              /\ SolutionVector[ret.val[k][1] * size + ret.val[k][2]] = 1
        /\ \A k \in 1..(Len(ret.val) - 1) :
              ret.val[k][1] * size + ret.val[k][2]
                  < ret.val[k + 1][1] * size + ret.val[k + 1][2]
        /\ \A i \in Idx(size * size) :
              SolutionVector[i] = 1 =>
                  \E k \in 1..Len(ret.val) : ret.val[k] = <<i \div size, i % size>>

C13_Witness ==
    /\ SolveGaveMoves
    /\ size = 3
    /\ Len(ret.val) >= 3
    /\ ret.val[1][1] = ret.val[2][1]
    /\ ret.val[2][1] < ret.val[3][1]

(***************************************************************************)
(* Claims about the solution solve picks among the solutions of a grid     *)
(* (SpecGen: the grids are generated, hence solvable).                     *)
(***************************************************************************)
\* solve has returned a move list for the grid in call.before
SolvedWithMoves == Returned("solve") /\ ret.kind = "moves"

\* the cells of a move list, as indices row * n + col
CellsOf(moves, n) == {moves[k][1] * n + moves[k][2] : k \in 1..Len(moves)}

\* C14 as claimed: no press set that drives the grid to all-off presses strictly
\* fewer cells than the move list solve returns.
C14_FewestPresses ==
    SolvedWithMoves =>
        \A S \in Solutions(call.before, size) : Cardinality(S) >= Len(ret.val)

\* C14 as amended: the move list solve returns is a solution with minimal support
\* under set inclusion (no other solution presses only cells of the move list);
\* it is the only solution, hence also the one with the fewest presses, when the
\* grid has a single solution.
C14_NoSolutionInside ==
    SolvedWithMoves =>
        /\ CellsOf(ret.val, size) \in Solutions(call.before, size)
        /\ \A S \in Solutions(call.before, size) :
              S \subseteq CellsOf(ret.val, size) => S = CellsOf(ret.val, size)

C14_Witness ==
    /\ SolvedWithMoves
    /\ size = 4
    /\ Cardinality(Solutions(call.before, size)) = 16
    /\ \E S \in Solutions(call.before, size) : Cardinality(S) < Len(ret.val)

\* C15: when solve returns a move list, the number of press sets that drive the
\* grid to all-off is 2^(n*n - r), r being the final value of the pivot-row
\* counter; so the solution is the only one exactly when r = n*n.
C15_SolutionCount ==
    SolveGaveMoves =>
        /\ Cardinality(Solutions(grid, size)) = Power(2, size * size - prow)
        /\ (Cardinality(Solutions(grid, size)) = 1) <=> (prow = size * size)

C15_Witness ==
    /\ SolveGaveMoves
    /\ size = 4
    /\ prow = 12
    /\ Len(ret.val) >= 2
    /\ Cardinality(Solutions(grid, size)) = 16

(***************************************************************************)
(* The robot controller (src/src/robot/controller.py).  A Position is a    *)
(* record [x, y]; a RobotState a record with the dataclass's fields;       *)
(* None is the value of RobotController.state before spawn.                *)
(***************************************************************************)
None == [kind |-> "None"]

\* lines 8-14: the members of Direction, in definition order
DirectionOrder == <<"NORTH", "SOUTH", "EAST", "WEST">>

Direction == {DirectionOrder[k] : k \in 1..Len(DirectionOrder)}

\* lines 11-14: Direction.value
DirectionValue(d) ==
    CASE d = "NORTH" -> <<0, -1>>
      [] d = "SOUTH" -> <<0, 1>>
      [] d = "EAST"  -> <<1, 0>>
      [] d = "WEST"  -> <<-1, 0>>

Position(x, y) == [x |-> x, y |-> y]

\* lines 32-35: Position.move
PositionMove(pos, d) ==
    Position(pos.x + DirectionValue(d)[1], pos.y + DirectionValue(d)[2])

\* lines 37-39: Position.manhattan_distance
manhattan_distance(a, b) ==
    (IF a.x >= b.x THEN a.x - b.x ELSE b.x - a.x)
    + (IF a.y >= b.y THEN a.y - b.y ELSE b.y - a.y)

\* lines 51-54, a plausible slip: no __post_init__, the trail starts empty
RobotStateEmptyTrail(position, direction) ==
    [position |-> position, direction |-> direction, energy |-> 100,
     trail |-> << >>, checkpoints_solved |-> {}]

\* lines 42-54: RobotState(position=..., direction=...) with the defaults and __post_init__
RobotState(position, direction) ==
    [position |-> position, direction |-> direction, energy |-> 100,
     trail |-> <<position>>, checkpoints_solved |-> {}]

\* lines 71-84: spawn
spawn(start_pos, direction) == RobotState(start_pos, direction)

\* lines 86-88, a plausible slip: <= for < at the upper edges
IsValidPositionInclusive(pos, w, h) ==
    0 <= pos.x /\ pos.x <= w /\ 0 <= pos.y /\ pos.y <= h

\* lines 86-88
is_valid_position(pos, w, h) ==
    0 <= pos.x /\ pos.x < w /\ 0 <= pos.y /\ pos.y < h

\* lines 142-150, a plausible slip: the trail is not appended to
MoveNoTrail(st, d, w, h) ==
    IF st = None
    THEN [state |-> st, raised |-> "RuntimeError"]
    ELSE LET turned == [st EXCEPT !.direction = d]
             new_pos == PositionMove(st.position, d)
         IN  IF ~is_valid_position(new_pos, w, h)
             THEN [state |-> turned, raised |-> "ValueError"]
             ELSE [state |-> [turned EXCEPT !.position = new_pos, !.energy = @ - 1],
                   raised |-> "none"]

\* lines 130-152: move; the state after the call and what it raised
move(st, d, w, h) ==
    IF st = None
    THEN [state |-> st, raised |-> "RuntimeError"]
    ELSE LET turned == [st EXCEPT !.direction = d]
             new_pos == PositionMove(st.position, d)
         IN  IF ~is_valid_position(new_pos, w, h)
             THEN [state |-> turned, raised |-> "ValueError"]
             ELSE [state |-> [turned EXCEPT !.position = new_pos,
                                            !.trail = Append(@, new_pos),
                                            !.energy = @ - 1],
                   raised |-> "none"]

\* lines 154-164, a plausible slip: the solved set is not consulted
CheckCheckpointIgnoresSolved(st, cps) ==
    IF st = None THEN FALSE ELSE st.position \in cps

\* lines 154-164: check_checkpoint
check_checkpoint(st, cps) ==
    IF st = None
    THEN FALSE
    ELSE st.position \in cps /\ st.position \notin st.checkpoints_solved

\* lines 166-171: solve_checkpoint
solve_checkpoint(st) ==
    IF st = None
    THEN [state |-> st, raised |-> "RuntimeError"]
    ELSE [state |-> [st EXCEPT !.checkpoints_solved = @ \cup {st.position}],
          raised |-> "none"]

\* lines 114-126: the loop over Direction for one queue entry, from the k-th
\* direction on; found tells that line 123 returned `path`
RECURSIVE BfsExpand(_, _, _, _, _, _, _, _)
BfsExpand(current, path, k, queue, visited, target, w, h) ==
    IF k > Len(DirectionOrder)
    THEN [found |-> FALSE, path |-> << >>, queue |-> queue, visited |-> visited]
    ELSE LET direction == DirectionOrder[k]
             next_pos == PositionMove(current, direction)
             new_path == Append(path, direction)
         IN  IF next_pos \in visited \/ ~is_valid_position(next_pos, w, h)
             THEN BfsExpand(current, path, k + 1, queue, visited, target, w, h)
             ELSE IF next_pos = target
                  THEN [found |-> TRUE, path |-> new_path, queue |-> queue, visited |-> visited]
                  ELSE BfsExpand(current, path, k + 1,
                                 Append(queue, [pos |-> next_pos, path |-> new_path]),
                                 visited \cup {next_pos}, target, w, h)

\* line 112, a plausible slip: queue.pop() for queue.popleft()
RECURSIVE BfsLoopPopsLast(_, _, _, _, _)
BfsLoopPopsLast(queue, visited, target, w, h) ==
    IF queue = << >>
    THEN << >>
    ELSE LET last == queue[Len(queue)]
             e == BfsExpand(last.pos, last.path, 1, SubSeq(queue, 1, Len(queue) - 1),
                            visited, target, w, h)
         IN  IF e.found THEN e.path ELSE BfsLoopPopsLast(e.queue, e.visited, target, w, h)

\* lines 111-128: while queue: ...; return []
RECURSIVE BfsLoop(_, _, _, _, _)
BfsLoop(queue, visited, target, w, h) ==
    IF queue = << >>
    THEN << >>
    ELSE LET e == BfsExpand(Head(queue).pos, Head(queue).path, 1, Tail(queue),
                            visited, target, w, h)
         IN  IF e.found THEN e.path ELSE BfsLoop(e.queue, e.visited, target, w, h)

\* lines 90-128: get_path_to
get_path_to(st, target, w, h) ==
    IF st = None
    THEN [path |-> << >>, raised |-> "RuntimeError"]
    ELSE IF st.position = target
         THEN [path |-> << >>, raised |-> "none"]
         ELSE [path |-> BfsLoop(<< [pos |-> st.position, path |-> << >>] >>,
                                {st.position}, target, w, h),
               raised |-> "none"]

(***************************************************************************)
(* SpecRobot: a caller constructs a controller and calls spawn, move,      *)
(* check_checkpoint and solve_checkpoint (tests/test_robot.py 7-35,        *)
(* 55-64; demos/__main__.py).                                              *)
(***************************************************************************)
MaxWidth == 2         \* grids of SpecRobot are at most MaxWidth x MaxWidth
MaxCheckpoints == 2   \* checkpoints lie among the first MaxCheckpoints cells
MaxTrail == 3         \* move is called while the trail is shorter than MaxTrail
MaxPathWidth == 3     \* grids of SpecPath are at most MaxPathWidth x MaxPathWidth

\* no puzzle solver in this run
SolverUnused ==
    /\ size = 0
    /\ grid = Unused
    /\ pressed = Unused
    /\ M = Unused
    /\ prow = 0
    /\ pcol = 0
    /\ cur = Unused
    /\ todo = {}
    /\ rng = Unused
    /\ oracle = Unused

GridPositions(w, h) == {Position(x, y) : x \in 0..(w - 1), y \in 0..(h - 1)}

\* the positions a robot is spawned at: every cell, and one place off the grid
SpawnPositions(w, h) == GridPositions(w, h) \cup {Position(-1, 0)}

CheckpointCells(w, h) ==
    {Position(i % w, i \div w) : i \in 0..((IF MaxCheckpoints < w * h THEN MaxCheckpoints ELSE w * h) - 1)}

\* controller = RobotController((width, height), checkpoints): lines 60-69
InitRobot ==
    /\ grid_width \in 1..MaxWidth
    /\ grid_height \in 1..MaxWidth
    /\ checkpoints \in SUBSET CheckpointCells(grid_width, grid_height)
    /\ state = None
    /\ pathpos = 0
    /\ pc = "idle"
    /\ call = Unused
    /\ ret = Unused
    /\ SolverUnused
    /\ GuiUnused
    /\ DemoUnused

\* what a call that may raise hands its caller
Outcome(res) ==
    IF res.raised = "none" THEN [kind |-> "state", val |-> res.state] ELSE [kind |-> res.raised]

\* controller.spawn(start_pos, direction)
CallSpawn(start_pos, direction) ==
    /\ pc = "idle"
    /\ state' = spawn(start_pos, direction)
    /\ ret' = [kind |-> "state", val |-> state']
    /\ call' = [op |-> "spawn", start_pos |-> start_pos, direction |-> direction]
    /\ pc' = "returned"
    /\ UNCHANGED <<grid_width, grid_height, checkpoints, pathpos>>
    /\ UNCHANGED <<size, grid, pressed, M, prow, pcol, cur, todo, rng, oracle, guiVars, demoVars>>

\* controller.move(direction), while the trail is shorter than `bound`
CallMoveWithin(direction, bound) ==
    /\ pc = "idle"
    /\ state # None => Len(state.trail) < bound
    /\ \E res \in {move(state, direction, grid_width, grid_height)} :
          /\ state' = res.state
          /\ ret' = Outcome(res)
    /\ call' = [op |-> "move", direction |-> direction, before |-> state]
    /\ pc' = "returned"
    /\ UNCHANGED <<grid_width, grid_height, checkpoints, pathpos>>
    /\ UNCHANGED <<size, grid, pressed, M, prow, pcol, cur, todo, rng, oracle, guiVars, demoVars>>

\* controller.move(direction)
CallMove(direction) == CallMoveWithin(direction, MaxTrail)

\* controller.check_checkpoint()
CallCheckCheckpoint ==
    /\ pc = "idle"
    /\ ret' = [kind |-> "bool", val |-> check_checkpoint(state, checkpoints)]
    /\ call' = [op |-> "check_checkpoint", before |-> state]
    /\ pc' = "returned"
    /\ UNCHANGED robotVars
    /\ UNCHANGED <<size, grid, pressed, M, prow, pcol, cur, todo, rng, oracle, guiVars, demoVars>>

\* controller.solve_checkpoint()
CallSolveCheckpoint ==
    /\ pc = "idle"
    /\ \E res \in {solve_checkpoint(state)} :
          /\ state' = res.state
          /\ ret' = IF res.raised = "none" THEN [kind |-> "None"] ELSE [kind |-> res.raised]
    /\ call' = [op |-> "solve_checkpoint", before |-> state]
    /\ pc' = "returned"
    /\ UNCHANGED <<grid_width, grid_height, checkpoints, pathpos>>
    /\ UNCHANGED <<size, grid, pressed, M, prow, pcol, cur, todo, rng, oracle, guiVars, demoVars>>

NextRobot ==
    \/ \E p \in SpawnPositions(grid_width, grid_height) : \E d \in Direction : CallSpawn(p, d)
    \/ \E d \in Direction : CallMove(d)
    \/ CallCheckCheckpoint
    \/ CallSolveCheckpoint
    \/ Return

SpecRobot == InitRobot /\ [][NextRobot]_vars

(***************************************************************************)
(* Claims about the robot controller (SpecRobot, SpecPath).                *)
(***************************************************************************)
\* a move call on a spawned robot has returned or raised
MoveReturned == Returned("move") /\ call.before # None

\* where that move was headed
Destination == PositionMove(call.before.position, call.direction)

\* C17: move never takes the robot off the grid: a move whose destination has x
\* outside [0, width) or y outside [0, height) raises ValueError, and after a
\* spawn at an in-bounds position and any moves the position is in bounds.
C17_StaysOnGrid ==
    /\ (MoveReturned
        /\ ~(0 <= Destination.x /\ Destination.x < grid_width
             /\ 0 <= Destination.y /\ Destination.y < grid_height))
       => ret.kind = "ValueError"
    /\ (state # None
        /\ 0 <= state.trail[1].x /\ state.trail[1].x < grid_width
        /\ 0 <= state.trail[1].y /\ state.trail[1].y < grid_height)
       => (/\ 0 <= state.position.x /\ state.position.x < grid_width
           /\ 0 <= state.position.y /\ state.position.y < grid_height)

C17_Witness ==
    /\ MoveReturned
    /\ ret.kind = "ValueError"
    /\ Len(state.trail) = 2
    /\ state.trail[1] = Position(0, 0)
    /\ state.position = Position(1, 0)
    /\ call.direction = "EAST"
    /\ grid_width = 2

(***************************************************************************)
(* SpecPath: path = controller.get_path_to(target), then                   *)
(* for direction in path: controller.move(direction)                       *)
(* (tests/test_robot.py 38-52).                                            *)
(***************************************************************************)
\* the targets asked for: every cell, and places beside the grid
Targets(w, h) == {Position(x, y) : x \in (-1)..w, y \in (-1)..h}

InitPath ==
    /\ grid_width \in 1..MaxPathWidth
    /\ grid_height \in 1..MaxPathWidth
    /\ checkpoints = {}
    /\ state = None
    /\ pathpos = 0
    /\ pc = "idle"
    /\ call = Unused
    /\ ret = Unused
    /\ SolverUnused
    /\ GuiUnused
    /\ DemoUnused

\* path = controller.get_path_to(target)
CallGetPathTo(target) ==
    /\ pc = "idle"
    /\ \E res \in {get_path_to(state, target, grid_width, grid_height)} :
          /\ ret' = IF res.raised = "none"
                    THEN [kind |-> "path", val |-> res.path]
                    ELSE [kind |-> res.raised]
          /\ pc' = IF res.raised = "none" THEN "path" ELSE "returned"
    /\ call' = [op |-> "get_path_to", target |-> target, before |-> state]
    /\ pathpos' = 0
    /\ UNCHANGED <<grid_width, grid_height, checkpoints, state>>
    /\ UNCHANGED <<size, grid, pressed, M, prow, pcol, cur, todo, rng, oracle, guiVars, demoVars>>

\* one iteration of the caller's loop: controller.move(direction)
FollowStep ==
    /\ pc = "path"
    /\ pathpos < Len(ret.val)
    /\ \E res \in {move(state, ret.val[pathpos + 1], grid_width, grid_height)} :
          /\ state' = res.state
          /\ pc' = IF res.raised = "none" THEN "path" ELSE "failed"
    /\ pathpos' = pathpos + 1
    /\ UNCHANGED <<grid_width, grid_height, checkpoints, call, ret>>
    /\ UNCHANGED <<size, grid, pressed, M, prow, pcol, cur, todo, rng, oracle, guiVars, demoVars>>

\* the loop is over
FollowEnd ==
    /\ pc = "path"
    /\ pathpos = Len(ret.val)
    /\ pc' = "followed"
    /\ UNCHANGED <<call, ret, robotVars>>
    /\ UNCHANGED <<size, grid, pressed, M, prow, pcol, cur, todo, rng, oracle, guiVars, demoVars>>

NextPath ==
    \/ \E p \in SpawnPositions(grid_width, grid_height) : \E d \in Direction : CallSpawn(p, d)
    \/ \E t \in Targets(grid_width, grid_height) : CallGetPathTo(t)
    \/ FollowStep
    \/ FollowEnd
    \/ Return

SpecPath == InitPath /\ [][NextPath]_vars

\* get_path_to was called for a robot on the grid and a target on the grid
PathAsked ==
    /\ pc \in {"path", "followed", "failed"}
    /\ call.op = "get_path_to"
    /\ is_valid_position(call.before.position, grid_width, grid_height)
    /\ is_valid_position(call.target, grid_width, grid_height)

\* C18: for a robot spawned on the grid and a target on the grid, get_path_to
\* returns a list as long as the Manhattan distance between them and leaves the
\* robot state as it was; executing the list with move raises no error and ends
\* at the target.
C18_PathReachesTarget ==
    PathAsked =>
        /\ Len(ret.val)
              = (IF call.before.position.x >= call.target.x
                 THEN call.before.position.x - call.target.x
                 ELSE call.target.x - call.before.position.x)
                + (IF call.before.position.y >= call.target.y
                   THEN call.before.position.y - call.target.y
                   ELSE call.target.y - call.before.position.y)
        /\ (pc = "path" /\ pathpos = 0) => state = call.before
        /\ pc # "failed"
        /\ pc = "followed" => state.position = call.target

C18_Witness ==
    /\ PathAsked
    /\ pc = "followed"
    /\ grid_width = 3
    /\ call.before.position = Position(2, 0)
    /\ call.target = Position(0, 2)
    /\ Len(state.trail) = 5

\* C19: check_checkpoint returns true exactly when the robot is spawned, its
\* position is a checkpoint and that position is not in checkpoints_solved;
\* solve_checkpoint puts the position into checkpoints_solved, where it stays
\* until the next spawn, so check_checkpoint is false there whatever moves follow.
C19_CheckpointOnce ==
    [][/\ (pc' = "returned" /\ call'.op = "check_checkpoint") =>
              ret'.val = (/\ state' # None
                          /\ state'.position \in checkpoints'
                          /\ state'.position \notin state'.checkpoints_solved)
       /\ (pc' = "returned" /\ call'.op = "solve_checkpoint" /\ state # None) =>
              state'.position \in state'.checkpoints_solved
       /\ (state # None /\ ~(pc' = "returned" /\ call'.op = "spawn")) =>
              (/\ state' # None
               /\ state.checkpoints_solved \subseteq state'.checkpoints_solved)
      ]_vars

C19_Witness ==
    /\ Returned("check_checkpoint")
    /\ state # None
    /\ ret.val = FALSE
    /\ state.position \in checkpoints
    /\ state.position \in state.checkpoints_solved
    /\ Len(state.trail) = 3
    /\ state.trail[1] = state.trail[3]

\* C20: a move whose destination is in bounds sets position to position plus the
\* direction's delta (EAST x+1, WEST x-1, NORTH y-1, SOUTH y+1), sets direction
\* to the given one, appends the new position to the trail, takes exactly 1 off
\* the energy and leaves checkpoints_solved alone; after spawn the trail is
\* [start] and the energy 100.
C20_MoveEffects ==
    /\ (MoveReturned /\ ret.kind = "state") =>
          /\ state.position.x = call.before.position.x
                + (CASE call.direction = "EAST" -> 1
                     [] call.direction = "WEST" -> -1
                     [] OTHER -> 0)
          /\ state.position.y = call.before.position.y
                + (CASE call.direction = "NORTH" -> -1
                     [] call.direction = "SOUTH" -> 1
                     [] OTHER -> 0)
          /\ state.direction = call.direction
          /\ state.trail = call.before.trail \o <<state.position>>
          /\ state.energy = call.before.energy - 1
          /\ state.checkpoints_solved = call.before.checkpoints_solved
          /\ ret.val = state
    /\ Returned("spawn") =>
          /\ state.trail = <<call.start_pos>>
          /\ state.position = call.start_pos
          /\ state.direction = call.direction
          /\ state.energy = 100

C20_Witness ==
    /\ MoveReturned
    /\ ret.kind = "state"
    /\ call.direction = "SOUTH"
    /\ call.before.direction = "EAST"
    /\ call.before.checkpoints_solved # {}
    /\ state.energy = 98
    /\ state.position = Position(1, 1)

(***************************************************************************)
(* The puzzle window of the game (demos/__main__.py 803-934).  Tk runs     *)
(* every handler on the main thread, and a handler that calls              *)
(* self.root.update() lets Tk dispatch further events before it goes on:   *)
(* `frames` holds the handlers in progress, each waiting in an update()    *)
(* call, the innermost last.  A handler runs without interruption from one *)
(* update() to the next.                                                   *)
(*                                                                         *)
(* window.after(500, f) registers f with the window, and window.destroy()  *)
(* deletes what is registered with it (tkinter Misc.destroy): a callback   *)
(* pending when the window is destroyed never runs, one registered after   *)
(* that does.  Configuring a button of a destroyed window raises TclError, *)
(* which ends the handler.  A disabled button delivers no click.           *)
(*                                                                         *)
(* The window is modal (grab_set, line 812), so no new puzzle is opened    *)
(* while it is open.  The model opens one only when no handler is in       *)
(* progress and no callback is pending.  complete_puzzle is modelled up to *)
(* window.destroy(); `completed` keeps the grid it was invoked with, and   *)
(* `call` the last thing the user did (for a click on Auto-Solve, with the  *)
(* number of complete_puzzle invocations before it).                       *)
(***************************************************************************)
MaxClicks == 3      \* user actions on the game: opening a puzzle, clicking a button
MaxGuiSeed == 21    \* solve_checkpoint seeds the generator with 0..MaxGuiSeed

GuiSize == 3

\* Python truthiness of current_solution: None and [] are false
SolutionTruthy(solution) == solution.kind = "moves" /\ solution.val # << >>

Frame(fn, at, moves, i) == [fn |-> fn, at |-> at, moves |-> moves, i |-> i]

Top == frames[Len(frames)]

Pop == SubSeq(frames, 1, Len(frames) - 1)

\* lines 416-431: the game before any puzzle was opened
InitGui ==
    /\ current_puzzle = None
    /\ current_solution = Unused
    /\ puzzle_solved_flag = FALSE
    /\ window = [status |-> "none", cells |-> "none"]
    /\ frames = << >>
    /\ timers = 0
    /\ completed = << >>
    /\ clicks = 0
    /\ size = GuiSize
    /\ rng \in {Seeded(0)}
    /\ grid = Unused
    /\ pc = "mainloop"
    /\ call = [op |-> "none"]
    /\ ret = Unused
    /\ pressed = Unused
    /\ M = Unused
    /\ prow = 0
    /\ pcol = 0
    /\ cur = Unused
    /\ todo = {}
    /\ oracle = Unused
    /\ RobotUnused
    /\ DemoUnused

\* lines 803-878: solve_checkpoint opens a puzzle
OpenPuzzle(seed) ==
    /\ window.status # "open"
    /\ frames = << >>
    /\ timers = 0
    /\ clicks < MaxClicks
    /\ puzzle_solved_flag' = FALSE
    /\ \E gen \in {generate_random_puzzle(rng, seed, GuiSize)} :
          /\ current_puzzle' = gen.grid
          /\ rng' = gen.rng
          /\ current_solution' = solve(gen.grid, GuiSize)
    /\ window' = [status |-> "open", cells |-> "normal"]
    /\ clicks' = clicks + 1
    /\ UNCHANGED <<frames, timers, completed, robotVars, demoVars>>
    /\ call' = [op |-> "solve_checkpoint", seed |-> seed]
    /\ UNCHANGED <<size, grid, pc, ret, pressed, M, prow, pcol, cur, todo, oracle>>

\* lines 897-909: a click on cell (row, col) runs toggle_puzzle_cell up to root.update()
ClickCell(row, col) ==
    /\ window.status = "open"
    /\ window.cells = "normal"
    /\ clicks < MaxClicks
    /\ clicks' = clicks + 1
    /\ IF puzzle_solved_flag
       THEN UNCHANGED <<current_puzzle, frames>>
       ELSE /\ current_puzzle' = Press(current_puzzle, row, col, GuiSize)
            /\ frames' = Append(frames, Frame("toggle", 909, << >>, 0))
    /\ UNCHANGED <<current_solution, puzzle_solved_flag, window, timers, completed, robotVars, demoVars>>
    /\ call' = [op |-> "toggle_puzzle_cell", row |-> row, col |-> col]
    /\ UNCHANGED <<size, grid, pc, ret, pressed, M, prow, pcol, cur, todo, rng, oracle>>

\* lines 911-916: toggle_puzzle_cell from the return of root.update() in line 909
ToggleAfterUpdate ==
    /\ frames # << >>
    /\ Top.fn = "toggle"
    /\ Top.at = 909
    /\ IF is_solved(current_puzzle, GuiSize)
       THEN /\ puzzle_solved_flag' = TRUE
            /\ IF window.status = "open"
               THEN /\ window' = [window EXCEPT !.cells = "disabled"]
                    /\ frames' = Append(Pop, Frame("toggle", 916, << >>, 0))
               ELSE /\ frames' = Pop
                    /\ UNCHANGED window
       ELSE /\ frames' = Pop
            /\ UNCHANGED <<puzzle_solved_flag, window>>
    /\ UNCHANGED <<current_puzzle, current_solution, timers, completed, clicks, robotVars, demoVars>>
    /\ UNCHANGED <<size, grid, pc, call, ret, pressed, M, prow, pcol, cur, todo, rng, oracle>>

\* line 917: window.after(500, lambda: self.complete_puzzle(window))
ToggleSchedules ==
    /\ frames # << >>
    /\ Top.fn = "toggle"
    /\ Top.at = 916
    /\ timers' = timers + 1
    /\ frames' = Pop
    /\ UNCHANGED <<current_puzzle, current_solution, puzzle_solved_flag, window, completed,
                   clicks, robotVars, demoVars>>
    /\ UNCHANGED <<size, grid, pc, call, ret, pressed, M, prow, pcol, cur, todo, rng, oracle>>

\* lines 919-927: a click on Auto-Solve runs auto_solve_puzzle up to the first root.update()
ClickAutoSolve ==
    /\ window.status = "open"
    /\ clicks < MaxClicks
    /\ clicks' = clicks + 1
    /\ IF SolutionTruthy(current_solution)
       THEN /\ current_puzzle' = Press(current_puzzle, current_solution.val[1][1],
                                       current_solution.val[1][2], GuiSize)
            /\ frames' = Append(frames, Frame("auto", 927, current_solution.val, 1))
       ELSE UNCHANGED <<current_puzzle, frames>>
    /\ UNCHANGED <<current_solution, puzzle_solved_flag, window, timers, completed, robotVars, demoVars>>
    /\ call' = [op |-> "auto_solve_puzzle", untouched |-> (call.op = "solve_checkpoint"),
                invoked |-> Len(completed)]
    /\ UNCHANGED <<size, grid, pc, ret, pressed, M, prow, pcol, cur, todo, rng, oracle>>

\* lines 927-930 and 922-926: auto_solve_puzzle from the return of root.update():
\* the next move, or complete_puzzle(window) after the last one
AutoAfterUpdate ==
    /\ frames # << >>
    /\ Top.fn = "auto"
    /\ IF Top.i < Len(Top.moves)
       THEN /\ current_puzzle' = Press(current_puzzle, Top.moves[Top.i + 1][1],
                                       Top.moves[Top.i + 1][2], GuiSize)
            /\ frames' = IF window.status = "open"
                         THEN Append(Pop, Frame("auto", 927, Top.moves, Top.i + 1))
                         ELSE Pop
            /\ UNCHANGED <<window, timers, completed>>
       ELSE /\ completed' = Append(completed, current_puzzle)
            /\ window' = [window EXCEPT !.status = "destroyed"]
            /\ timers' = IF window.status = "open" THEN 0 ELSE timers
            /\ frames' = Pop
            /\ UNCHANGED current_puzzle
    /\ UNCHANGED <<current_solution, puzzle_solved_flag, clicks, robotVars, demoVars>>
    /\ UNCHANGED <<size, grid, pc, call, ret, pressed, M, prow, pcol, cur, todo, rng, oracle>>

\* the callback of line 917 runs: complete_puzzle(window), lines 932-934
TimerFires ==
    /\ timers > 0
    /\ completed' = Append(completed, current_puzzle)
    /\ window' = [window EXCEPT !.status = "destroyed"]
    /\ timers' = IF window.status = "open" THEN 0 ELSE timers - 1
    /\ UNCHANGED <<current_puzzle, current_solution, puzzle_solved_flag, frames, clicks, robotVars, demoVars>>
    /\ UNCHANGED <<size, grid, pc, call, ret, pressed, M, prow, pcol, cur, todo, rng, oracle>>

NextGui ==
    \/ \E seed \in 0..MaxGuiSeed : OpenPuzzle(seed)
    \/ \E row \in Idx(GuiSize) : \E col \in Idx(GuiSize) : ClickCell(row, col)
    \/ ToggleAfterUpdate
    \/ ToggleSchedules
    \/ ClickAutoSolve
    \/ AutoAfterUpdate
    \/ TimerFires

SpecGui == InitGui /\ [][NextGui]_vars

\* C16: Solved is terminal in the puzzle window: once toggle_puzzle_cell has set
\* puzzle_solved_flag, no event on the still open window changes current_puzzle.
C16_SolvedIsTerminal ==
    [][(puzzle_solved_flag /\ window.status = "open") => current_puzzle' = current_puzzle]_vars

(***************************************************************************)
(* Claims about the elimination, column by column (SpecSolve).             *)
(***************************************************************************)
\* the rows holding a 1 in column c of the coefficient part of m
OnesInColumn(m, c, NN) == {r \in Idx(NN) : m[r][c] = 1}

\* the loop body for column pcol - 1 has just finished
ColumnDone == pc = "elim" /\ pcol >= 1

\* C21: immediately after the loop iteration for column c, pivot found or not,
\* column c of the coefficient part holds at most a single 1 across all rows.
C21_ColumnAtMostOneOne ==
    ColumnDone => Cardinality(OnesInColumn(M, pcol - 1, size * size)) <= 1

\* C21, amended: after an iteration that found a pivot in column c, column c holds
\* exactly one 1, in the pivot row; after an iteration that skipped column c, the
\* matrix is as it was and column c holds no 1 at or below the pivot row.
C21_ColumnAfterIteration ==
    [][(pc = "elim" /\ pc' = "elim" /\ pcol' = pcol + 1) =>
          IF prow' = prow + 1
          THEN OnesInColumn(M', pcol, size * size) = {prow}
          ELSE /\ prow' = prow
               /\ M' = M
               /\ \A r \in OnesInColumn(M', pcol, size * size) : r < prow]_vars

C21_Witness ==
    /\ ColumnDone
    /\ size = 4
    /\ pcol = 13
    /\ prow = 12
    /\ Cardinality(OnesInColumn(M, 12, 16)) >= 2

\* the columns in which Eliminate finds a pivot, in the order of their pivot rows:
\* the k-th entry is the column for which row k - 1 was chosen
RECURSIVE PivotColumns(_, _, _, _, _)
PivotColumns(m, row, col, NN, found) ==
    IF col >= NN
    THEN found
    ELSE LET s == ElimColumn(m, row, col, NN)
         IN  PivotColumns(s.M, s.row, col + 1, NN,
                          IF s.row = row + 1 THEN Append(found, col) ELSE found)

\* the pivot columns of the call that has returned
PivotColumnsOfCall ==
    PivotColumns(Augment(build_transition_matrix(size), Flatten(call.before, size), size * size),
                 0, 0, size * size, << >>)

\* C22: when _solve_gf2 returns a vector x, the first column holding a 1 in each
\* pivot row i (i below the final pivot count) is the column in which row i was
\* chosen as pivot, x at that column is the row's final augmented entry, and
\* x[c] = 0 for every column c in which no pivot was found.
C22_BackSubstitution ==
    SolveGaveMoves =>
        LET NN == size * size
            piv == PivotColumnsOfCall
            x == SolutionVector
        IN  /\ Len(piv) = prow
            /\ \A i \in 0..(prow - 1) :
                  /\ M[i][piv[i + 1]] = 1
                  /\ \A c \in 0..(piv[i + 1] - 1) : M[i][c] = 0
                  /\ x[piv[i + 1]] = M[i][NN]
            /\ \A c \in Idx(NN) : (\A k \in 1..Len(piv) : piv[k] # c) => x[c] = 0

C22_Witness ==
    /\ SolveGaveMoves
    /\ size = 4
    /\ prow = 12
    /\ \E i \in 0..(prow - 1) :
          /\ M[i][16] = 1
          /\ \E c \in 12..15 : M[i][c] = 1

(***************************************************************************)
(* Further claims about the puzzle window (SpecGui).                       *)
(***************************************************************************)
\* C23: complete_puzzle is only ever invoked while current_puzzle is all-off, in
\* every interleaving of cell clicks and Auto-Solve clicks on an opened puzzle.
C23_CompletedOnlySolved ==
    \A k \in 1..Len(completed) : is_solved(completed[k], GuiSize)

\* the main loop goes on dispatching: a handler waiting in update() is resumed,
\* a pending callback is run; the user owes no click
SpecGuiLive ==
    /\ SpecGui
    /\ WF_vars(ToggleAfterUpdate)
    /\ WF_vars(ToggleSchedules)
    /\ WF_vars(AutoAfterUpdate)
    /\ WF_vars(TimerFires)

\* Auto-Solve was the k-th user action, on a puzzle window nothing was clicked in
AutoSolveOnUntouched(k) ==
    /\ call.op = "auto_solve_puzzle"
    /\ call.untouched
    /\ clicks = k

\* complete_puzzle was invoked since that click, with an all-off grid
AutoSolveCompleted ==
    /\ call.op = "auto_solve_puzzle"
    /\ Len(completed) > call.invoked
    /\ is_solved(completed[call.invoked + 1], GuiSize)

\* C24: a click on Auto-Solve in an untouched puzzle window eventually invokes
\* complete_puzzle with an all-off grid (unless the user clicks again before),
\* also when the generated grid is all-off and the precomputed solution is [].
C24_AutoSolveCompletes ==
    \A k \in 0..MaxClicks :
        AutoSolveOnUntouched(k) ~> (clicks > k \/ AutoSolveCompleted)

(***************************************************************************)
(* Further claims about the robot controller (SpecRobot).                  *)
(***************************************************************************)
\* C25: a move that raises ValueError because the destination is out of bounds
\* leaves the whole RobotState as it was before the call: position, direction,
\* energy, trail and checkpoints_solved.
C25_FailedMoveChangesNothing ==
    (MoveReturned /\ ret.kind = "ValueError") => state = call.before

(***************************************************************************)
(* SpecEnergy: a robot is spawned on a corridor of two cells and moved up  *)
(* and down it for longer than its energy lasts (demos/__main__.py         *)
(* 785-801: move_robot on every key press).  On two cells the trail is     *)
(* settled by its length, which keeps the runs of over a hundred moves     *)
(* few.                                                                    *)
(***************************************************************************)
MaxMoves == 101       \* move is called while fewer than MaxMoves moves succeeded

\* controller = RobotController((2, 1), [])
InitEnergy ==
    /\ grid_width = 2
    /\ grid_height = 1
    /\ checkpoints = {}
    /\ state = None
    /\ pathpos = 0
    /\ pc = "idle"
    /\ call = Unused
    /\ ret = Unused
    /\ SolverUnused
    /\ GuiUnused
    /\ DemoUnused

NextEnergy ==
    \/ /\ state = None
       /\ \E p \in GridPositions(grid_width, grid_height) : CallSpawn(p, "NORTH")
    \/ \E d \in Direction : CallMoveWithin(d, MaxMoves + 1)
    \/ Return

SpecEnergy == InitEnergy /\ [][NextEnergy]_vars

\* C26: after spawn and any sequence of moves, successful or failing, the last
\* element of the trail is the current position and the energy is 100 minus
\* (length of the trail minus 1), the number of successful moves; the energy has
\* no lower bound: it is negative after more than 100 successful moves.
C26_TrailAndEnergy ==
    state # None =>
        /\ Len(state.trail) >= 1
        /\ state.trail[Len(state.trail)] = state.position
        /\ state.energy = 100 - (Len(state.trail) - 1)
        /\ Len(state.trail) - 1 > 100 => state.energy < 0

C26_Witness ==
    /\ state # None
    /\ Len(state.trail) = 102
    /\ state.energy = -1
    /\ pc = "returned"
    /\ ret.kind = "state"

\* C27: in every state reached through spawn, move and solve_checkpoint,
\* checkpoints_solved is a subset of the controller's checkpoints, so that as
\* many solved as there are checkpoints means every checkpoint is solved.
C27_SolvedAreCheckpoints ==
    state # None =>
        /\ state.checkpoints_solved \subseteq checkpoints
        /\ Cardinality(state.checkpoints_solved) = Cardinality(checkpoints)
              => state.checkpoints_solved = checkpoints

\* demos/__main__.py 942-947: the turn count complete_puzzle computes from the trail
RECURSIVE TurnsFrom(_, _, _)
TurnsFrom(trail, i, turns) ==
    IF i > Len(trail)
    THEN turns
    ELSE LET prev == trail[i - 1]
             curr == trail[i]
         IN  TurnsFrom(trail, i + 1,
                       IF prev.x # curr.x /\ prev.y # curr.y THEN turns + 1 ELSE turns)

turns_made(trail) == IF Len(trail) > 1 THEN TurnsFrom(trail, 2, 0) ELSE 0

\* the step that led to the i-th position of the trail
StepInto(trail, i) == <<trail[i].x - trail[i - 1].x, trail[i].y - trail[i - 1].y>>

\* the positions of the trail at which the robot went on in another direction
\* than it had arrived in
DirectionChanges(trail) ==
    {i \in 2..(Len(trail) - 1) : StepInto(trail, i + 1) # StepInto(trail, i)}

\* C28: the turn count complete_puzzle computes from the trail is the number of
\* direction changes along the trail, for every trail a sequence of moves makes.
C28_TurnsAreDirectionChanges ==
    state # None => turns_made(state.trail) = Cardinality(DirectionChanges(state.trail))

(***************************************************************************)
(* The screensaver (demos/aods_manager.py).  start_monitoring binds the    *)
(* activity events and starts a chain of _check_idle callbacks, one every  *)
(* check_interval_ms; idle_time_ms is counted in units of that interval,   *)
(* and ActivationChecks stands for get_activation_ms() in the same units.  *)
(* The settings dialog is modelled by its SAVE button, for the enabled     *)
(* flag; its preview is left out.  The screensaver window exists exactly   *)
(* while is_active, and the events bound on it close it as _on_activity    *)
(* does.                                                                   *)
(***************************************************************************)
ActivationChecks == 4   \* get_activation_ms() / check_interval_ms
MaxEvents == 6          \* user activity and saved settings, counted together

\* no puzzle, no robot, no puzzle window
GameUnused ==
    /\ pc = "mainloop"
    /\ call = Unused
    /\ ret = Unused
    /\ SolverUnused
    /\ RobotUnused
    /\ GuiUnused

\* no accounts in this run
UserUnused ==
    /\ users_file = << >>
    /\ session_file = Unused
    /\ users = << >>
    /\ current_user = << >>
    /\ session_event = Unused

\* lines 28-55: AODSManager(user_manager), the settings as the file has them
InitAods ==
    /\ settings_enabled \in BOOLEAN
    /\ idle_time_ms = 0
    /\ is_active = FALSE
    /\ idle_checks = 0
    /\ monitoring = "no"
    /\ events = 0
    /\ GameUnused
    /\ UserUnused

\* lines 121-126: _schedule_idle_check; the callbacks pending after it
schedule_idle_check(enabled, pending) == IF enabled THEN pending + 1 ELSE pending

\* lines 77-93: start_monitoring(root)
StartMonitoring ==
    /\ monitoring = "no"
    /\ IF ~settings_enabled
       THEN /\ monitoring' = "returned"
            /\ UNCHANGED idle_checks
       ELSE /\ monitoring' = "bound"
            /\ idle_checks' = schedule_idle_check(settings_enabled, idle_checks)
    /\ UNCHANGED <<settings_enabled, idle_time_ms, is_active, events>>
    /\ UNCHANGED <<solverVars, robotVars, guiVars, userVars>>

\* lines 112-119 and 316-322: _on_activity, with _close_screensaver
OnActivity ==
    /\ monitoring = "bound"
    /\ events < MaxEvents
    /\ events' = events + 1
    /\ idle_time_ms' = 0
    /\ is_active' = FALSE
    /\ UNCHANGED <<settings_enabled, idle_checks, monitoring>>
    /\ UNCHANGED <<solverVars, robotVars, guiVars, userVars>>

\* lines 128-142 and 144-149: a pending _check_idle callback runs
CheckIdle ==
    /\ idle_checks > 0
    /\ IF ~settings_enabled \/ is_active
       THEN /\ idle_checks' = schedule_idle_check(settings_enabled, idle_checks - 1)
            /\ UNCHANGED <<idle_time_ms, is_active>>
       ELSE /\ idle_time_ms' = idle_time_ms + 1
            /\ is_active' = (idle_time_ms + 1 >= ActivationChecks)
            /\ idle_checks' = schedule_idle_check(settings_enabled, idle_checks - 1)
    /\ UNCHANGED <<settings_enabled, monitoring, events>>
    /\ UNCHANGED <<solverVars, robotVars, guiVars, userVars>>

\* lines 619-640: SAVE in the settings dialog, with the enabled box as the user left it
SaveSettings(enabled) ==
    /\ monitoring # "no"
    /\ events < MaxEvents
    /\ events' = events + 1
    /\ settings_enabled' = enabled
    /\ UNCHANGED <<idle_time_ms, is_active, idle_checks, monitoring>>
    /\ UNCHANGED <<solverVars, robotVars, guiVars, userVars>>

NextAods ==
    \/ StartMonitoring
    \/ OnActivity
    \/ CheckIdle
    \/ \E enabled \in BOOLEAN : SaveSettings(enabled)

\* Tk's main loop runs every pending callback; the user owes nothing
SpecAods == InitAods /\ [][NextAods]_vars /\ WF_vars(CheckIdle)

\* C29: after start_monitoring, whenever settings.enabled is true and the user
\* does nothing for the activation period, the screensaver eventually activates;
\* also after AODS was disabled and enabled again in the settings dialog, and
\* after a screensaver was closed by activity.
C29_ScreensaverActivates ==
    \A k \in 0..MaxEvents :
        (monitoring # "no" /\ settings_enabled /\ events = k) ~> (is_active \/ events > k)

(***************************************************************************)
(* The accounts (demos/user_manager.py).  Several UserManager objects may  *)
(* work on one data directory (every LoginScreen constructs one): each has *)
(* its own `users`, loaded when it was constructed, and all share          *)
(* users.json and session.json.  A dictionary is a set of <<username,      *)
(* password hash>> pairs, a string a tuple of characters; of a profile     *)
(* only the password hash is kept.                                         *)
(***************************************************************************)
MaxManagers == 2    \* UserManager objects on the data directory

Managers == 1..MaxManagers

Usernames == {<<"a", "n", "n">>, <<"b", "o", "b">>, <<"a", "b">>, <<"a", "_", "b">>}

Passwords == {<<"p", "w", "1", "2">>, <<"p", "w", "9", "9">>, <<"a", "b", "c">>}

\* the passwords accounts are created with: a good one and one too short; a
\* login may also try a wrong one
NewPasswords == {<<"p", "w", "1", "2">>, <<"a", "b", "c">>}

AlNum == {"a", "b", "n", "o", "p", "w", "1", "2", "9"}

\* str.isalnum()
isalnum(str) == Len(str) > 0 /\ \A k \in 1..Len(str) : str[k] \in AlNum

\* lines 44-46: _hash_password
hash_password(password) == <<"sha256", password>>

Keys(dict) == {e[1] : e \in dict}

Get(dict, key) == (CHOOSE e \in dict : e[1] = key)[2]

Put(dict, key, value) == {e \in dict : e[1] # key} \cup {<<key, value>>}

User(username) == [kind |-> "user", username |-> username]

\* lines 78-81, a plausible slip: the session file is left in place
ClearSessionKeepsFile(session) == session

\* lines 78-81: _clear_session; the session file after it
clear_session(session) == None

\* lines 27-42: every manager constructed on the empty data directory
InitUser ==
    /\ users_file = {}
    /\ session_file = None
    /\ users = [i \in Managers |-> {}]
    /\ current_user = [i \in Managers |-> None]
    /\ session_event = [kind |-> "none"]
    /\ settings_enabled = FALSE
    /\ idle_time_ms = 0
    /\ is_active = FALSE
    /\ idle_checks = 0
    /\ monitoring = "no"
    /\ events = 0
    /\ GameUnused

Called(op, i, ok) ==
    /\ call' = [op |-> op, mgr |-> i]
    /\ ret' = [kind |-> "bool", ok |-> ok]
    /\ UNCHANGED <<size, grid, pc, pressed, M, prow, pcol, cur, todo, rng, oracle>>
    /\ UNCHANGED <<robotVars, guiVars, aodsVars>>

\* lines 27-42 and 48-57: UserManager(data_dir) anew, as a restarted game does
Construct(i) ==
    /\ users' = [users EXCEPT ![i] = users_file]
    /\ current_user' = [current_user EXCEPT ![i] = None]
    /\ UNCHANGED <<users_file, session_file, session_event>>
    /\ Called("UserManager", i, TRUE)

\* lines 83-119: create_account(username, password)
CreateAccount(i, username, password) ==
    /\ IF \/ Len(username) < 3
          \/ ~isalnum(username)
          \/ username \in Keys(users[i])
          \/ Len(password) < 4
       THEN /\ UNCHANGED <<users, users_file>>
            /\ Called("create_account", i, FALSE)
       ELSE /\ users' = [users EXCEPT ![i] = Put(@, username, hash_password(password))]
            /\ users_file' = users'[i]
            /\ Called("create_account", i, TRUE)
    /\ UNCHANGED <<session_file, current_user, session_event>>

\* lines 121-147: login(username, password)
Login(i, username, password) ==
    IF \/ username \notin Keys(users[i])
       \/ Get(users[i], username) # hash_password(password)
    THEN /\ UNCHANGED userVars
         /\ Called("login", i, FALSE)
    ELSE /\ current_user' = [current_user EXCEPT ![i] = User(username)]
         /\ users_file' = users[i]
         /\ session_file' = User(username)
         /\ session_event' = [kind |-> "login", username |-> username, mgr |-> i]
         /\ UNCHANGED users
         /\ Called("login", i, TRUE)

\* lines 149-172: try_auto_login()
TryAutoLogin(i) ==
    IF session_file # None /\ session_file.username \in Keys(users[i])
    THEN /\ current_user' = [current_user EXCEPT ![i] = User(session_file.username)]
         /\ users_file' = users[i]
         /\ UNCHANGED <<session_file, users, session_event>>
         /\ Called("try_auto_login", i, TRUE)
    ELSE /\ UNCHANGED userVars
         /\ Called("try_auto_login", i, FALSE)

\* lines 174-177: logout()
Logout(i) ==
    /\ current_user' = [current_user EXCEPT ![i] = None]
    /\ session_file' = clear_session(session_file)
    /\ session_event' = [kind |-> "logout", mgr |-> i]
    /\ UNCHANGED <<users, users_file>>
    /\ Called("logout", i, TRUE)

NextUser ==
    \/ \E i \in Managers : Construct(i)
    \/ \E i \in Managers : \E u \in Usernames : \E p \in NewPasswords : CreateAccount(i, u, p)
    \/ \E i \in Managers : \E u \in Usernames : \E p \in Passwords : Login(i, u, p)
    \/ \E i \in Managers : TryAutoLogin(i)
    \/ \E i \in Managers : Logout(i)

SpecUser == InitUser /\ [][NextUser]_vars

\* try_auto_login, login or logout has just returned
UserCalled(op) == call # Unused /\ call.op = op

\* C30: over any sequence of create_account, login, logout and try_auto_login on
\* one data directory, try_auto_login returns true only if the last call that
\* changed the session was a successful login of a user the manager knows, and
\* it then sets current_user to that user; after logout current_user is None and
\* try_auto_login returns false until the next successful login; a failed login
\* neither sets current_user nor writes a session.
C30_SessionFollowsLogin ==
    /\ [](/\ (UserCalled("try_auto_login") /\ ret.ok) =>
                /\ session_event.kind = "login"
                /\ session_event.username \in Keys(users[call.mgr])
                /\ current_user[call.mgr] = User(session_event.username)
          /\ UserCalled("logout") => current_user[call.mgr] = None
          /\ (UserCalled("try_auto_login") /\ session_event.kind # "login") => ~ret.ok)
    /\ [][(call'.op = "login" /\ ~ret'.ok) =>
              (current_user' = current_user /\ session_file' = session_file)]_vars

C30_Witness ==
    /\ UserCalled("try_auto_login")
    /\ ret.ok
    /\ session_event.mgr # call.mgr
    /\ current_user[session_event.mgr] = None

====
